---- MODULE Spec2Model ----
(***************************************************************************)
(* Model of backend/main.py: the POST /debug-code relay with its TTL       *)
(* response cache (cachetools.TTLCache), its per-address rate limit        *)
(* (slowapi "5/minute") and its error path.                                *)
(*                                                                         *)
(* Strings that the code concatenates or compares are finite sequences of  *)
(* character codes; message texts are sequences of text fragments.         *)
(***************************************************************************)
EXTENDS Integers, Sequences, FiniteSets, TLC

VARIABLES now, cache, hits, log, slot, running, arrivals, last, served, storedAt, failedFor,
          win, recent, cfg

vars == <<now, cache, hits, log, slot, running, arrivals, last, served, storedAt, failedFor,
          win, recent, cfg>>

----------------------------------------------------------------------------
(* Program constants *)

ttl == 300
maxsize == 100
RateAmount == 5
RatePeriod == 60

(* Bounds of the model *)

Quantum == 30
MaxTime == 360
MaxCount == 6
MaxLog == 1
FillClients == 26

----------------------------------------------------------------------------
(* Characters and strings *)

Dash == 45
Space == 32

Missing == <<0>>

Explanation == <<"This response includes fixes and optimizations.">>
FailureDetail == <<"An error occurred while processing the request.">>
LimitDetail == <<"5 per 1 minute">>
UpstreamErrors == {"upstream: connection reset"}
CompletionTexts == {<<Space, 49>>, <<50, Space>>}

RECURSIVE LStrip(_)
LStrip(s) == IF s # <<>> /\ Head(s) = Space THEN LStrip(Tail(s)) ELSE s

RECURSIVE RStrip(_)
RStrip(s) == IF s # <<>> /\ s[Len(s)] = Space THEN RStrip(SubSeq(s, 1, Len(s) - 1)) ELSE s

Strip(s) == RStrip(LStrip(s))

Range(s) == {s[i] : i \in DOMAIN s}

----------------------------------------------------------------------------
(* Request schema and cache key *)

(* Variant: language declared optional in the schema *)
ValidBodyCodeOnly(b) == b.code # Missing

ValidBody(b) == b.language # Missing /\ b.code # Missing

cache_key(language, code) == language \o <<Dash>> \o code

result(text) == [optimized_code |-> Strip(text), explanation |-> Explanation]

----------------------------------------------------------------------------
(* cachetools.TTLCache(maxsize, ttl): links in insertion order, oldest first *)

KeyError == [optimized_code |-> <<>>, explanation |-> <<"KeyError">>]

Expire(c, t) == SelectSeq(c, LAMBDA l : t < l.expires)

(* Variant: the expiry comparison the wrong way round *)
ContainsInverted(c, k, t) == \E i \in DOMAIN c : c[i].key = k /\ c[i].expires < t

(* Variant: membership without looking at the expiry time *)
ContainsNoExpiry(c, k, t) == \E i \in DOMAIN c : c[i].key = k

Contains(c, k, t) == \E i \in DOMAIN c : c[i].key = k /\ t < c[i].expires

Link(c, k) == c[CHOOSE i \in DOMAIN c : c[i].key = k]

GetItem(c, k, t) == IF Contains(c, k, t) THEN Link(c, k).value ELSE KeyError

(* Variant: no eviction when the cache is full *)
PopNothing(c) == c

RECURSIVE PopUntilFits(_)
PopUntilFits(c) == IF Len(c) + 1 > maxsize THEN PopUntilFits(Tail(c)) ELSE c

SetItem(c, k, v, src, t) ==
    LET live == Expire(c, t)
        kept == IF \E i \in DOMAIN live : live[i].key = k
                THEN SelectSeq(live, LAMBDA l : l.key # k)
                ELSE PopUntilFits(live)
    IN  Append(kept, [key |-> k, value |-> v, expires |-> t + ttl, src |-> src])

----------------------------------------------------------------------------
(* slowapi Limiter, "5/minute", default fixed-window strategy over the     *)
(* in-memory storage: a counter and its expiry per remote address          *)

NoHits == [count |-> 0, expires |-> 0]

Hit(h, t) ==
    LET cur == IF h.expires <= t THEN NoHits ELSE h
        cnt == cur.count + 1
    IN  [count |-> cnt, expires |-> IF cnt = 1 THEN t + RatePeriod ELSE cur.expires]

(* Variant: the comparison with the limit off by one *)
AllowedBelow(h) == h.count < RateAmount

Allowed(h) == h.count <= RateAmount

----------------------------------------------------------------------------
(* Exception handlers of the application *)

rate_limit_exceeded_handler(detail) ==
    [status |-> 429, content |-> [error |-> <<"Rate limit exceeded: ">> \o detail]]

http_exception_handler(status, detail) ==
    [status |-> status, content |-> [detail |-> detail]]

HandleException(exc) ==
    CASE exc.class = "fastapi.HTTPException" -> rate_limit_exceeded_handler(exc.detail)
      [] exc.class = "RateLimitExceeded" -> http_exception_handler(exc.status, exc.detail)
      [] exc.class = "RequestValidationError" -> http_exception_handler(422, <<"field required">>)
      [] OTHER -> [status |-> 500, content |-> [text |-> <<"Internal Server Error">>]]

----------------------------------------------------------------------------
(* Requests *)

Body(language, code) == [language |-> language, code |-> code]

Collide1 == Body(<<112>>, <<45, 120>>)
Collide2 == Body(<<112, 45>>, <<120>>)
Plain == Body(<<112>>, <<120>>)
NoCode == Body(<<112>>, Missing)
NoLanguage == Body(Missing, <<120>>)

NoBody == Body(<<>>, <<>>)

Idle == [pc |-> "idle", client |-> 0, body |-> NoBody, answers |-> {}, errors |-> {}, admitted |-> FALSE,
         read |-> FALSE, ncalls |-> 0]

NoLast == [n |-> 0, client |-> 0, body |-> NoBody, status |-> 0, content |-> [text |-> <<>>],
           admitted |-> FALSE, read |-> FALSE, ncalls |-> 0, wrote |-> FALSE,
           failed |-> FALSE, expires |-> 0, src |-> NoBody, t |-> 0]

(* The fill schedule: each address sends four fresh snippets, then the very *)
(* first snippet again, then a sixth request.                              *)
FillBody(k) ==
    IF k % 6 >= 4 THEN Body(<<112>>, <<1000>>)
    ELSE Body(<<112>>, <<1000 + (4 * (k \div 6)) + (k % 6)>>)

FillAnswers(k) == IF k = 0 THEN {<<Space, 49>>} ELSE {<<50, Space>>}

FillErrors(k) == IF k = 1 THEN UpstreamErrors ELSE {}

FillInputs == IF arrivals < 6 * FillClients
              THEN {<<1 + arrivals \div 6, FillBody(arrivals), FillAnswers(arrivals), FillErrors(arrivals)>>} \cup
                   (IF arrivals = 0 THEN {<<1, NoCode, {}, {}>>} ELSE {})
              ELSE {}

(* What the next request can be: its remote address, its body and the     *)
(* texts and the errors the completion provider may answer it with        *)
Inputs == IF cfg.fill THEN FillInputs
          ELSE cfg.clients \X cfg.bodies \X {cfg.answers} \X {UpstreamErrors}

Key(b) == cache_key(b.language, b.code)

----------------------------------------------------------------------------
(* Whether the completion call hands the event loop back while it waits:   *)
(* the handler is a coroutine but calls the client synchronously.          *)
CompletionCallYields == FALSE

(* Bookkeeping of the fixed window a limiter decision falls in: a window  *)
(* opens with the first request made once the previous one is over.        *)
NoWindow == [start |-> -1, admitted |-> 0]

WindowAt(w, t) == IF w.start = -1 \/ t >= w.start + RatePeriod
                  THEN [start |-> t, admitted |-> 0]
                  ELSE w

Finish(r, resp, wrote, failed, expires, src) ==
    /\ slot' = [slot EXCEPT ![r] = Idle]
    /\ running' = 0
    /\ last' = [n |-> 1 - last.n, client |-> slot[r].client, body |-> slot[r].body,
                status |-> resp.status, content |-> resp.content,
                admitted |-> slot[r].admitted, read |-> slot[r].read,
                ncalls |-> slot[r].ncalls, wrote |-> wrote, failed |-> failed,
                expires |-> expires, src |-> src, t |-> now]
    /\ served' = IF resp.status = 200
                 THEN [served EXCEPT ![slot[r].body] = [content |-> resp.content, expires |-> expires]]
                 ELSE served

NoServed == [content |-> [text |-> <<>>], expires |-> 0]

Receive(r) ==
    /\ running = 0
    /\ slot[r].pc = "idle"
    /\ \E in \in Inputs :
         /\ hits[in[1]].count < MaxCount
         /\ slot' = [slot EXCEPT ![r] = [Idle EXCEPT !.pc = "parsed", !.client = in[1], !.body = in[2],
                                                !.answers = in[3], !.errors = in[4]]]
    /\ arrivals' = IF cfg.fill /\ slot'[r].body # NoCode THEN arrivals + 1 ELSE arrivals
    /\ UNCHANGED <<now, cache, hits, log, running, last, served, storedAt, failedFor, win, recent, cfg>>

Validate(r) ==
    /\ running = 0
    /\ slot[r].pc = "parsed"
    /\ IF ValidBody(slot[r].body)
       THEN /\ slot' = [slot EXCEPT ![r].pc = "limit"]
            /\ running' = r
            /\ UNCHANGED <<last, served>>
       ELSE Finish(r, HandleException([class |-> "RequestValidationError"]), FALSE, FALSE, 0, NoBody)
    /\ UNCHANGED <<now, cache, hits, log, arrivals, storedAt, failedFor, win, recent, cfg>>

(* The limit decorator is taken to evaluate "5/minute" for the connection   *)
(* of each call, keyed by its remote address. slowapi finds the connection *)
(* in the endpoint parameter named request, which line 59 gives to the     *)
(* body model; a wrapper that refuses that argument would fail every valid *)
(* request before this step, and is not modelled.                          *)
CheckLimit(r) ==
    /\ running = r
    /\ slot[r].pc = "limit"
    /\ LET h == Hit(hits[slot[r].client], now)
           w == WindowAt(win[slot[r].client], now)
       IN  /\ hits' = [hits EXCEPT ![slot[r].client] = h]
           /\ win' = [win EXCEPT ![slot[r].client] =
                         [w EXCEPT !.admitted = IF Allowed(h) THEN @ + 1 ELSE @]]
           /\ recent' = [recent EXCEPT ![slot[r].client] =
                            IF Allowed(h) THEN Append(@, now) ELSE @]
           /\ IF Allowed(h)
              THEN /\ slot' = [slot EXCEPT ![r].pc = "lookup", ![r].admitted = TRUE]
                   /\ UNCHANGED <<running, last, served>>
              ELSE Finish(r, HandleException([class |-> "RateLimitExceeded", status |-> 429,
                                              detail |-> LimitDetail]), FALSE, FALSE, 0, NoBody)
    /\ UNCHANGED <<now, cache, log, arrivals, storedAt, failedFor, cfg>>

Lookup(r) ==
    /\ running = r
    /\ slot[r].pc = "lookup"
    /\ slot' = [slot EXCEPT ![r].read = TRUE,
                            ![r].pc = IF Contains(cache, Key(slot[r].body), now) THEN "read" ELSE "call"]
    /\ failedFor' = failedFor \ {slot[r].body}
    /\ UNCHANGED <<now, cache, hits, log, running, arrivals, last, served, storedAt, win, recent, cfg>>

ReadCache(r) ==
    /\ running = r
    /\ slot[r].pc = "read"
    /\ LET k == Key(slot[r].body)
           v == GetItem(cache, k, now)
       IN  IF v = KeyError
           THEN Finish(r, HandleException([class |-> "KeyError"]), FALSE, FALSE, 0, NoBody)
           ELSE Finish(r, [status |-> 200, content |-> v], FALSE, FALSE,
                       Link(cache, k).expires, Link(cache, k).src)
    /\ UNCHANGED <<now, cache, hits, log, arrivals, storedAt, failedFor, win, recent, cfg>>

CallStart(r) ==
    /\ running = r
    /\ slot[r].pc = "call"
    /\ slot' = [slot EXCEPT ![r].pc = "waiting", ![r].ncalls = @ + 1]
    /\ running' = IF CompletionCallYields THEN 0 ELSE r
    /\ UNCHANGED <<now, cache, hits, log, arrivals, last, served, storedAt, failedFor, win, recent, cfg>>

CompleteOk(r) ==
    /\ running = (IF CompletionCallYields THEN 0 ELSE r)
    /\ slot[r].pc = "waiting"
    /\ \E text \in slot[r].answers :
         LET k == Key(slot[r].body)
             v == result(text)
         IN  /\ cache' = SetItem(cache, k, v, slot[r].body, now)
             /\ storedAt' = [x \in DOMAIN storedAt \cup {k} |-> IF x = k THEN now ELSE storedAt[x]]
             /\ Finish(r, [status |-> 200, content |-> v], TRUE, FALSE, now + ttl, slot[r].body)
    /\ UNCHANGED <<now, hits, log, arrivals, failedFor, win, recent, cfg>>

CompleteFail(r) ==
    /\ running = (IF CompletionCallYields THEN 0 ELSE r)
    /\ slot[r].pc = "waiting"
    /\ Len(log) < MaxLog
    /\ \E e \in slot[r].errors :
         /\ log' = Append(log, [level |-> "ERROR", message |-> <<"Error debugging code: ", e>>])
         /\ failedFor' = failedFor \cup {slot[r].body}
         /\ Finish(r, HandleException([class |-> "fastapi.HTTPException", status |-> 500,
                                       detail |-> FailureDetail]), FALSE, TRUE, 0, NoBody)
    /\ UNCHANGED <<now, cache, hits, arrivals, storedAt, win, recent, cfg>>

(* Time passes; the bookkeeping of past responses forgets what has expired *)
Tick ==
    /\ now + cfg.step <= cfg.maxTime
    /\ arrivals <= cfg.tickArrivals
    /\ now' = now + cfg.step
    /\ served' = [p \in DOMAIN served |-> IF served[p].expires <= now' THEN NoServed ELSE served[p]]
    /\ storedAt' = [k \in DOMAIN storedAt |-> IF storedAt[k] + ttl < now' THEN -1 ELSE storedAt[k]]
    /\ recent' = [a \in DOMAIN recent |-> SelectSeq(recent[a], LAMBDA t : t > now' - RatePeriod)]
    /\ UNCHANGED <<cache, hits, log, slot, running, arrivals, last, failedFor, win, cfg>>

Next ==
    \/ \E r \in cfg.slots : Receive(r)
    \/ \E r \in cfg.slots : Validate(r)
    \/ \E r \in cfg.slots : CheckLimit(r)
    \/ \E r \in cfg.slots : Lookup(r)
    \/ \E r \in cfg.slots : ReadCache(r)
    \/ \E r \in cfg.slots : CallStart(r)
    \/ \E r \in cfg.slots : CompleteOk(r)
    \/ \E r \in cfg.slots : CompleteFail(r)
    \/ Tick

InitWith(c) ==
    /\ cfg = c
    /\ now = 0
    /\ cache = <<>>
    /\ hits = [a \in c.clients |-> NoHits]
    /\ log = <<>>
    /\ slot = [r \in c.slots |-> Idle]
    /\ running = 0
    /\ arrivals = 0
    /\ last = NoLast
    /\ served = [p \in c.bodies |-> NoServed]
    /\ storedAt = [k \in {} |-> 0]
    /\ failedFor = {}
    /\ win = [a \in c.clients |-> NoWindow]
    /\ recent = [a \in c.clients |-> <<>>]

FillBodies == {FillBody(k) : k \in 0 .. 6 * FillClients - 1} \cup {NoCode}

Init == InitWith([answers |-> CompletionTexts, fill |-> FALSE, tickArrivals |-> 0, clients |-> {1}, slots |-> {1}, maxTime |-> MaxTime, step |-> 2 * Quantum,
                  bodies |-> {Collide1, Collide2, NoCode, NoLanguage}])

InitLimit == InitWith([answers |-> {<<Space, 49>>}, fill |-> FALSE, tickArrivals |-> 0, clients |-> {1, 2}, slots |-> {1}, maxTime |-> 2 * Quantum, step |-> Quantum,
                       bodies |-> {Plain, NoCode}])

InitConc == InitWith([answers |-> CompletionTexts, fill |-> FALSE, tickArrivals |-> 0, clients |-> {1}, slots |-> {1, 2}, maxTime |-> Quantum, step |-> Quantum,
                      bodies |-> {Plain, NoLanguage}])

InitFill == InitWith([answers |-> CompletionTexts, fill |-> TRUE, tickArrivals |-> 1, clients |-> 1 .. FillClients, slots |-> {1}, maxTime |-> Quantum, step |-> Quantum,
                      bodies |-> FillBodies])

Spec == Init /\ [][Next]_vars
SpecLimit == InitLimit /\ [][Next]_vars
SpecConc == InitConc /\ [][Next]_vars
SpecFill == InitFill /\ [][Next]_vars

TypeOK ==
    /\ now \in 0 .. cfg.maxTime
    /\ Len(cache) <= maxsize
    /\ running \in {0} \cup cfg.slots
    /\ \A r \in cfg.slots : slot[r].pc \in {"idle", "parsed", "limit", "lookup", "read", "call", "waiting"}

----------------------------------------------------------------------------
(* Steps of a request, as seen in a pair of states *)

Keys(c) == {c[i].key : i \in DOMAIN c}

Finishes == last'.n # last.n

Leaves(r, pc) == slot[r].pc = pc /\ slot'[r].pc # pc

Stale(k) == k \in DOMAIN storedAt /\ (storedAt[k] = -1 \/ now > storedAt[k] + ttl)

LacksField(b) == b.language = Missing \/ b.code = Missing

----------------------------------------------------------------------------
----------------------------------------------------------------------------
----------------------------------------------------------------------------
(* C3: whenever the completion call failed, the caller is answered 500     *)
(* with the fixed detail message, the answer carries none of the upstream  *)
(* error text, and the log holds a record with the upstream error text.    *)
C3_Claim ==
    last.failed =>
       /\ last.status = 500
       /\ last.content = [detail |-> FailureDetail]
       /\ \A f \in DOMAIN last.content : Range(last.content[f]) \cap UpstreamErrors = {}
       /\ Len(log) >= 1
       /\ Range(log[Len(log)].message) \cap UpstreamErrors # {}

----------------------------------------------------------------------------
(* C4: an admitted request for a key whose entry was stored more than 300  *)
(* seconds ago, and not stored again since, misses the cache and makes a   *)
(* completion call; a cache hit leaves the cache, and so every expiry      *)
(* time, as it was.                                                        *)
C4_Expiry ==
    [][\A r \in cfg.slots :
         /\ (Leaves(r, "lookup") /\ Stale(Key(slot[r].body))) => slot'[r].pc = "call"
         /\ Leaves(r, "call") => (slot'[r].pc = "waiting" /\ slot'[r].ncalls = slot[r].ncalls + 1)
         /\ Leaves(r, "read") => cache' = cache]_vars

(* A request is in its completion call for a key whose earlier entry has   *)
(* outlived its 300 seconds.                                               *)
C4_Witness ==
    \E r \in cfg.slots : slot[r].pc = "waiting" /\ slot[r].ncalls = 1 /\ Stale(Key(slot[r].body))

----------------------------------------------------------------------------
(* C5: a request whose body lacks code or language is answered 422 by      *)
(* validation alone: the step that rejects it changes neither the limiter  *)
(* counts nor the cache, it has read no cache entry and made no completion *)
(* call, and no such request ever gets past validation.                    *)
C5_Validation ==
    [][\A r \in cfg.slots :
         /\ (Leaves(r, "parsed") /\ LacksField(slot[r].body)) =>
               /\ Finishes /\ last'.status = 422
               /\ ~last'.admitted /\ ~last'.read /\ last'.ncalls = 0 /\ ~last'.wrote
               /\ hits' = hits /\ cache' = cache
         /\ slot'[r].pc \notin {"idle", "parsed"} => ~LacksField(slot'[r].body)]_vars

(* A request with a missing field was rejected for an address that has     *)
(* already spent part of its quota, with an entry in the cache.            *)
C5_Witness ==
    /\ last.status = 422 /\ LacksField(last.body)
    /\ hits[last.client].count \in 1 .. RateAmount
    /\ cache # <<>>

----------------------------------------------------------------------------
(* C6: a request answered from the cache receives an entry that was stored *)
(* for its own (language, code) pair.                                      *)
C6_Claim == (last.status = 200 /\ last.ncalls = 0) => last.src = last.body

----------------------------------------------------------------------------
(* C7: every schema-valid request ends in exactly one of: denied (429, no  *)
(* cache read, no completion call), served from the cache (200, no call),  *)
(* computed (200, one call, result stored) or failed (500, one call,       *)
(* nothing stored); never more than one completion call.                   *)
C7_Denied == last.status = 429 /\ ~last.admitted /\ ~last.read /\ last.ncalls = 0 /\ ~last.wrote

C7_Cached == last.status = 200 /\ last.admitted /\ last.read /\ last.ncalls = 0 /\ ~last.wrote

C7_Computed == last.status = 200 /\ last.admitted /\ last.read /\ last.ncalls = 1 /\ last.wrote

C7_Failed == last.status = 500 /\ last.admitted /\ last.read /\ last.ncalls = 1 /\ ~last.wrote

C7_Claim ==
    (last.status # 0 /\ ~LacksField(last.body)) =>
        /\ C7_Denied \/ C7_Cached \/ C7_Computed \/ C7_Failed
        /\ last.ncalls <= 1

----------------------------------------------------------------------------
(* C8: the cache never holds more than 100 entries; storing under a new    *)
(* key into a cache of 100 entries removes an entry it held, and the new   *)
(* entry is present afterwards.                                            *)
C8_Capacity ==
    [][/\ Len(cache') <= maxsize
       /\ \A r \in cfg.slots :
            (Leaves(r, "waiting") /\ Finishes /\ last'.wrote /\ Len(cache) = maxsize
               /\ Key(slot[r].body) \notin Keys(cache))
            => /\ \E i \in DOMAIN cache' : cache'[i].key = Key(slot[r].body) /\ now < cache'[i].expires
               /\ Keys(cache) \ Keys(cache') # {}]_vars

(* The cache is full and an entry that had not expired is gone from it.    *)
C8_Witness ==
    /\ Len(cache) = maxsize
    /\ \E k \in DOMAIN storedAt : storedAt[k] # -1 /\ now < storedAt[k] + ttl /\ k \notin Keys(cache)

----------------------------------------------------------------------------
(* C9: while one request waits on the completion call, any other request   *)
(* that has arrived can make progress.                                     *)
C9_Claim ==
    \A r1, r2 \in cfg.slots :
        (r1 # r2 /\ slot[r1].pc = "waiting" /\ slot[r2].pc = "parsed") => ENABLED Validate(r2)

----------------------------------------------------------------------------
(* C10: a failed completion leaves the cache as it was, every cache entry  *)
(* is the result record of a successful completion, and after a failure    *)
(* for a pair the next admitted request for that pair misses the cache.    *)
C10_Claim ==
    [][/\ (Finishes /\ last'.failed) => cache' = cache
       /\ \A i \in DOMAIN cache' :
             \E text \in CompletionTexts : cache'[i].value = result(text)
       /\ \A r \in cfg.slots :
            (Leaves(r, "lookup") /\ slot[r].body \in failedFor) => slot'[r].pc = "call"]_vars

====
